---- MODULE Spec2Model ----
(***************************************************************************)
(* A model of the 3X-UI panel client XUIService (src/XUI/XUiApiServices.py) *)
(* and of the bot handlers that drive it (src/bot.py).                     *)
(*                                                                         *)
(* The panel is remote: every HTTP call is one step in which the panel     *)
(* handles the request, and calls of different callers interleave between  *)
(* those steps.  JSON text is a tagged value, an address string is the     *)
(* tuple of its octets with its prefix length.                             *)
(***************************************************************************)
EXTENDS Integers, Sequences, FiniteSets, TLC

VARIABLES
    panel,        \* the panel's inbounds: id -> inbound document
    pc,           \* each caller's position inside its operation
    loc,          \* each caller's local variables
    ret,          \* each caller's last finished call, with its outcome
    nextKey,      \* the next key pair _generate_wg_keys will produce
    calls,        \* number of operations started so far
    dedup,        \* whether the panel rejects a client email it already holds
    session,      \* whether the panel still accepts the session cookie
    poolCidr,     \* pick_new_ip's network_cidr argument
    settingsJson, \* pick_new_ip's settings_json argument
    origJson,     \* the settings_json the allocation run started from
    pickRes,      \* outcome of the last pick_new_ip call
    pickHist,     \* the addresses returned so far, in order
    inbList,      \* what list_inbounds answers to get_least_clients_inbound
    leastArg,     \* get_least_clients_inbound's protocol argument
    leastResp,    \* the panel's answer to its list request
    leastRes,     \* outcome of get_least_clients_inbound
    fmtInbound,   \* format_vless_url's inbound argument
    fmtRes        \* outcome of format_vless_url

panelVars == <<panel, pc, loc, ret, nextKey, calls, dedup, session>>
pickVars == <<poolCidr, settingsJson, origJson, pickRes, pickHist>>
leastVars == <<inbList, leastArg, leastResp, leastRes>>
fmtVars == <<fmtInbound, fmtRes>>
vars == <<panelVars, pickVars, leastVars, fmtVars>>

----------------------------------------------------------------------------
(* Python values *)

\* dict.get(key, default)
Get(d, k, default) == IF k \in DOMAIN d THEN d[k] ELSE default

\* json.loads / json.dumps: a JSON text wraps the value it encodes
JsonDumps(v) == [json |-> v]
JsonLoads(s) == s.json

None == [type |-> "NoneType"]
Raise(msg) == [kind |-> "exception", msg |-> msg]

Range(s) == {s[i] : i \in DOMAIN s}

----------------------------------------------------------------------------
(* ipaddress *)

\* "a.b.c.d/n" is [ip |-> <<a,b,c,d>>, len |-> n]; ip.split("/")[0]
SplitSlash0(s) == s.ip

\* ipaddress.IPv4Address(text): the integer value of the dotted quad
IPv4Address(o) == o[1] * 16777216 + o[2] * 65536 + o[3] * 256 + o[4]

\* IPv4Address.compressed: the dotted quad of an integer
Compressed(n) ==
    <<n \div 16777216, (n \div 65536) % 256, (n \div 256) % 256, n % 256>>

\* the address of an "a.b.c.d/n" string
AddrOf(s) == IPv4Address(SplitSlash0(s))

NumAddresses(cidr) == 2 ^ (32 - cidr.len)

\* ipaddress.IPv4Network(cidr) is strict: host bits set raise ValueError
ValidNetwork(cidr) == IPv4Address(cidr.ip) % NumAddresses(cidr) = 0

\* (faulty variant: the broadcast address is counted as a host)
HostsWithBroadcast(cidr) ==
    LET network == IPv4Address(cidr.ip)
        broadcast == network + NumAddresses(cidr) - 1
        lo == IF cidr.len >= 31 THEN network ELSE network + 1
    IN  [i \in 1..(broadcast - lo + 1) |-> lo + i - 1]

\* IPv4Network.hosts(): ascending; network and broadcast address left out,
\* except that a /31 yields both its addresses and a /32 its only one
Hosts(cidr) ==
    LET network == IPv4Address(cidr.ip)
        broadcast == network + NumAddresses(cidr) - 1
        lo == IF cidr.len >= 31 THEN network ELSE network + 1
        hi == IF cidr.len >= 31 THEN broadcast ELSE broadcast - 1
    IN  [i \in 1..(hi - lo + 1) |-> lo + i - 1]

----------------------------------------------------------------------------
(* XUIService.pick_new_ip *)

DefaultPool == [ip |-> <<10, 0, 0, 0>>, len |-> 24]

\* used_ips: every allowedIPs entry of every peer, as an address
UsedIps(settings_json) ==
    LET peers == Get(JsonLoads(settings_json), "peers", <<>>)
    IN  UNION {{IPv4Address(SplitSlash0(ip)) :
                    ip \in Range(Get(peers[p], "allowedIPs", <<>>))} :
               p \in DOMAIN peers}

\* a host that is in the used set is skipped  (faulty variant: the test is dropped)
HostIsFreeNoCheck(host, used_ips) == TRUE

HostIsFree(host, used_ips) == host \notin used_ips

\* for host in network.hosts(): if host not in used_ips: return ...
\* the loop returns at the first position of hosts() that is free
FirstFree(hosts, used_ips) ==
    LET free == {i \in DOMAIN hosts : HostIsFree(hosts[i], used_ips)}
    IN  IF free = {} THEN Raise("IP pool exhausted")
        ELSE LET first == CHOOSE i \in free : \A j \in free : i <= j
             IN  [kind |-> "ok",
                  value |-> [ip |-> Compressed(hosts[first]), len |-> 32]]

PickNewIp(settings_json, network_cidr) ==
    IF ~ValidNetwork(network_cidr) THEN Raise("ValueError")
    ELSE FirstFree(Hosts(network_cidr), UsedIps(settings_json))

----------------------------------------------------------------------------
(* XUIService._generate_wg_keys and the peer record *)

DefaultKeepalive == 25

\* a fresh private key and the public key derived from it
GenerateWgKeys(k) == [priv |-> [privateKey |-> k], pub |-> [publicKey |-> k]]

NewPeer(keys, new_ip, keepalive, name) ==
    [privateKey |-> keys.priv, publicKey |-> keys.pub,
     allowedIPs |-> <<new_ip>>, keepAlive |-> keepalive, name |-> name]

\* (faulty variant: the new peer replaces the peers there were)
AppendPeerAlone(settings, new_peer) ==
    [k \in DOMAIN settings \cup {"peers"} |->
        IF k = "peers" THEN <<new_peer>> ELSE settings[k]]

\* settings.setdefault("peers", []).append(new_peer)
AppendPeer(settings, new_peer) ==
    [k \in DOMAIN settings \cup {"peers"} |->
        IF k = "peers" THEN Append(Get(settings, "peers", <<>>), new_peer)
        ELSE settings[k]]

----------------------------------------------------------------------------
(* XUIService.list_inbounds and get_least_clients_inbound *)

\* what the panel may answer to GET /panel/api/inbounds/list
ListOutcomes == {"ok", "http_error", "api_false"}

ListResponse(outcome, inbounds) ==
    IF outcome = "ok" THEN [status |-> 200, body |-> [success |-> TRUE, obj |-> inbounds]]
    ELSE IF outcome = "api_false"
         THEN [status |-> 200, body |-> [success |-> FALSE, msg |-> "failed"]]
         ELSE [status |-> 500, body |-> [success |-> FALSE]]

\* resp.raise_for_status(); return resp.json().get("obj", [])
ListInbounds(resp) ==
    IF resp.status >= 400 THEN Raise("HTTPError")
    ELSE [kind |-> "ok", value |-> Get(resp.body, "obj", <<>>)]

\* min() keeps the element it holds unless a later key is strictly smaller
\* (faulty variant: a later element with an equal key replaces it)
KeyReplacesOnTie(new, held) == new <= held

KeyReplaces(new, held) == new < held

LoadOf(i) == Len(Get(i, "clientStats", <<>>))

RECURSIVE MinByLoad(_, _, _)
MinByLoad(filtered, k, held) ==
    IF k > Len(filtered) THEN held
    ELSE MinByLoad(filtered, k + 1,
                   IF KeyReplaces(LoadOf(filtered[k]), LoadOf(held))
                   THEN filtered[k] ELSE held)

\* [i for i in inbounds if i.get("protocol") == protocol]
FilterByProtocol(inbounds, protocol) ==
    LET Matches(i) == i.protocol = protocol
    IN  SelectSeq(inbounds, Matches)

GetLeastClientsInbound(resp, protocol) ==
    LET inbounds == ListInbounds(resp)
    IN  IF inbounds.kind = "exception" THEN inbounds
        ELSE LET filtered == FilterByProtocol(inbounds.value, protocol)
             IN  IF filtered = <<>> THEN Raise("No inbounds with protocol")
                 ELSE [kind |-> "ok", value |-> MinByLoad(filtered, 2, filtered[1])]

----------------------------------------------------------------------------
(* XUIService.add_wireguard_peer *)

\* next((i for i in inbounds if i["id"] == inbound_id), None)
FindById(inbounds, inbound_id) ==
    LET hits == {k \in DOMAIN inbounds : inbounds[k].id = inbound_id}
    IN  IF hits = {} THEN None
        ELSE inbounds[CHOOSE k \in hits : \A j \in hits : k <= j]

\* {k: orig[k] for k in orig if k not in ("id", "clientStats")}
\* with payload["settings"] = json.dumps(settings)
UpdatePayload(orig, settings) ==
    [k \in DOMAIN orig \ {"id", "clientStats"} |->
        IF k = "settings" THEN JsonDumps(settings) ELSE orig[k]]

\* steps 1 to 4: fetch the inbound, allocate, generate keys, build the payload
AwpPrepare(resp, inbound_id, name, keepalive, key) ==
    LET inbounds == ListInbounds(resp)
    IN  IF inbounds.kind = "exception" THEN inbounds
        ELSE LET orig == FindById(inbounds.value, inbound_id)
             IN  IF orig = None THEN Raise("Inbound not found")
                 ELSE LET new_ip == PickNewIp(orig.settings, DefaultPool)
                      IN  IF new_ip.kind = "exception" THEN new_ip
                          ELSE LET new_peer == NewPeer(GenerateWgKeys(key), new_ip.value,
                                                       keepalive, name)
                               IN  [kind |-> "ok", orig |-> orig, new_peer |-> new_peer,
                                    payload |-> UpdatePayload(orig,
                                        AppendPeer(JsonLoads(orig.settings), new_peer))]

\* (faulty variant: the success flag is read the wrong way round)
AwpFinishInverted(resp, new_peer) ==
    IF resp.status = 0 THEN Raise("ConnectionError")
    ELSE IF resp.status >= 400 THEN Raise("HTTPError")
    ELSE IF Get(resp.body, "success", FALSE) THEN Raise("Update Inbound failed")
    ELSE [kind |-> "ok", value |-> [peer |-> new_peer, result |-> resp.body]]

\* step 5: session.post raises, raise_for_status raises, success is false,
\* or the peer is returned with the panel's answer
AwpFinish(resp, new_peer) ==
    IF resp.status = 0 THEN Raise("ConnectionError")
    ELSE IF resp.status >= 400 THEN Raise("HTTPError")
    ELSE IF ~Get(resp.body, "success", FALSE) THEN Raise("Update Inbound failed")
    ELSE [kind |-> "ok", value |-> [peer |-> new_peer, result |-> resp.body]]

\* (faulty variant: a failed update request is sent again)
AwpAfterUpdateRetry(out) == IF out.kind = "exception" THEN "awp_update" ELSE "idle"

\* after the update's answer the function raises or returns: the call is over
AwpAfterUpdate(out) == "idle"

----------------------------------------------------------------------------
(* The session and the requests of a call *)

\* what the panel answers to a request whose session it no longer accepts:
\* an HTTP error status, or a body with success false
Unauthorized == {"http_error", "api_false"}

\* the outcomes a request can have, given what it could have with a valid session
Answers(outcomes) == IF session = "valid" THEN outcomes ELSE Unauthorized

\* a request as sent: its endpoint and the state of the session it carried
Request(endpoint) == [req |-> endpoint, session |-> session]

----------------------------------------------------------------------------
(* The panel's side of POST /panel/api/inbounds/update/{id} *)

\* the update is applied and answered; rejected; fails with an HTTP error
\* status; never reaches the panel; or is applied and its answer is lost
UpdateOutcomes == {"ok", "api_false", "http_error", "refused", "lost"}

UpdateApplies(outcome) == outcome \in {"ok", "lost"}

\* a full-document overwrite of everything but id and clientStats
ApplyUpdate(doc, payload) ==
    [k \in DOMAIN doc |-> IF k \in DOMAIN payload THEN payload[k] ELSE doc[k]]

PanelAfterUpdate(inbounds, inbound_id, payload, outcome) ==
    [i \in DOMAIN inbounds |->
        IF UpdateApplies(outcome) /\ inbounds[i].id = inbound_id
        THEN ApplyUpdate(inbounds[i], payload) ELSE inbounds[i]]

\* status 0 stands for no response at all
UpdateResponse(outcome, doc) ==
    IF outcome = "ok" THEN [status |-> 200, body |-> [success |-> TRUE, obj |-> doc]]
    ELSE IF outcome = "api_false"
         THEN [status |-> 200, body |-> [success |-> FALSE, msg |-> "rejected"]]
    ELSE IF outcome = "http_error" THEN [status |-> 500, body |-> [success |-> FALSE]]
    ELSE [status |-> 0, body |-> [success |-> FALSE]]

----------------------------------------------------------------------------
(* XUIService.add_client and the lookup it falls back to *)

PyTuple(a, b) == [type |-> "tuple", items |-> <<a, b>>]
PyDict(d) == [type |-> "dict", items |-> d]

Return(v) == [kind |-> "ok", value |-> v]

\* the client record add_client generates: uuid4 for id, uuid4().hex for subId
NewClient(uuid, email) ==
    [id |-> uuid, flow |-> "", email |-> email, limitIp |-> 0, totalGB |-> 0,
     expiryTime |-> 0, enable |-> TRUE, tgId |-> "", subId |-> uuid, reset |-> 0]

AddClientPayload(inbound_id, client) ==
    [id |-> inbound_id, settings |-> JsonDumps([clients |-> <<client>>])]

\* the try block: TRUE when it returns (client, result), FALSE when it
\* raises and the except block takes over
CreateSucceeded(resp) ==
    /\ resp.status # 0
    /\ resp.status < 400
    /\ Get(resp.body, "success", FALSE)

\* find_client_in_inbound: the first entry of clients (vless, vmess) or of
\* peers (any other protocol) whose email or name is the argument
FindClientInInbound(inbound, email) ==
    LET settings == JsonLoads(inbound.settings)
        key == IF inbound.protocol \in {"vless", "vmess"} THEN "clients" ELSE "peers"
        entries == Get(settings, key, <<>>)
        hits == {k \in DOMAIN entries :
                    \/ Get(entries[k], "email", "<None>") = email
                    \/ Get(entries[k], "name", "<None>") = email}
    IN  IF hits = {} THEN Raise("Client not found in inbound")
        ELSE Return(entries[CHOOSE k \in hits : \A j \in hits : k <= j])

\* get_client_config_by_email: the ids of the listed inbounds it will
\* fetch, in list order: those whose protocol is the argument
LookupCandidates(inbounds, protocol) ==
    LET kept == FilterByProtocol(inbounds, protocol)
    IN  [k \in DOMAIN kept |-> kept[k].id]

\* the protocol add_client's except block passes to the lookup
FallbackProtocol == "vless"

\* get_inbound: raise_for_status, then success is checked, then obj
GetInbound(resp) ==
    IF resp.status = 0 \/ resp.status >= 400 THEN Raise("HTTPError")
    ELSE IF ~Get(resp.body, "success", FALSE) THEN Raise("Get inbound failed")
    ELSE Return(resp.body.obj)

\* client_info, result = value: a tuple of two unpacks; a dict unpacks into
\* its keys and only when it has exactly two; None cannot be unpacked
Unpack2(value) ==
    IF value = None THEN Raise("TypeError")
    ELSE IF value.type = "tuple" THEN [kind |-> "ok", ofKeys |-> FALSE, value |-> value.items]
    ELSE IF Cardinality(DOMAIN value.items) = 2 THEN [kind |-> "ok", ofKeys |-> TRUE]
    ELSE Raise("ValueError")

\* a text that gets quoted is the sequence of its characters, "" is <<>>
\* urllib.parse.quote leaves letters, digits, "_.-~" and "/" as they are
SafeChars == {"a", "b", "x", "y", "0", "1", "_", ".", "-", "~", "/"}

PercentEncoded(ch) ==
    CASE ch = " " -> "%20"
      [] ch = "&" -> "%26"
      [] ch = "#" -> "%23"
      [] ch = "?" -> "%3F"
      [] OTHER -> "%XX"

\* urllib.parse.quote: every character outside the safe ones becomes %XX
Quote(text) ==
    [k \in DOMAIN text |-> IF text[k] \in SafeChars THEN text[k]
                           ELSE PercentEncoded(text[k])]

\* format_vless_url
FormatVlessUrl(client_info, inbound, host, port) ==
    LET stream == JsonLoads(inbound.streamSettings)
        reality == Get(stream, "realitySettings", <<>>)
        serverNames == Get(reality, "serverNames", <<"">>)
        shortIds == Get(reality, "shortIds", <<"">>)
    IN  IF serverNames = <<>> \/ shortIds = <<>> THEN Raise("IndexError")
        ELSE Return([scheme |-> "vless", id |-> client_info.id, host |-> host,
                     port |-> port,
                     query |-> [type |-> Get(stream, "network", "tcp"),
                                security |-> Get(stream, "security", "none"),
                                pbk |-> Get(reality, "publicKey", ""),
                                fp |-> Get(reality, "fingerprint", ""),
                                sni |-> serverNames[1],
                                sid |-> shortIds[1],
                                spx |-> Quote(Get(Get(reality, "settings", <<>>),
                                                 "spiderX", <<>>))],
                     remark |-> client_info.email])

\* protocol_vless after add_client returned `value`: unpack, format, send;
\* any exception is caught and answered with an error message
VlessHandlerAfter(value, inbound) ==
    LET pair == Unpack2(value)
    IN  IF pair.kind = "exception" THEN [answer |-> "error", cause |-> pair.msg]
        ELSE IF pair.ofKeys THEN [answer |-> "error", cause |-> "TypeError"]
        ELSE LET url == FormatVlessUrl(pair.value[1], inbound, "HOST", inbound.port)
             IN  IF url.kind = "exception" THEN [answer |-> "error", cause |-> url.msg]
                 ELSE [answer |-> "sent", url |-> url.value]

----------------------------------------------------------------------------
(* The panel's side of addClient and get *)

\* the emails of the clients the panel holds, over all inbounds
ClientsOf(doc) == Get(JsonLoads(doc.settings), "clients", <<>>)

HeldEmails(inbounds) ==
    UNION {{c.email : c \in Range(ClientsOf(inbounds[i]))} : i \in DOMAIN inbounds}

\* what may become of an addClient request: applied and answered, applied
\* with the answer lost, rejected as a duplicate email, rejected because
\* the inbound does not exist, or failed with an HTTP error
AddClientOutcomes(inbounds, unique, inbound_id, email) ==
    IF FindById(inbounds, inbound_id) = None THEN {"api_false", "http_error"}
    ELSE IF unique /\ email \in HeldEmails(inbounds) THEN {"duplicate", "http_error"}
    ELSE {"ok", "lost", "http_error"}

\* the panel appends the client to the inbound's clients and clientStats
AppendClient(doc, client) ==
    [doc EXCEPT !.settings = JsonDumps([JsonLoads(doc.settings) EXCEPT
                                  !.clients = Append(@, client)]),
                !.clientStats = Append(@, [email |-> client.email])]

PanelAfterAddClient(inbounds, payload, outcome) ==
    [i \in DOMAIN inbounds |->
        IF outcome \in {"ok", "lost"} /\ inbounds[i].id = payload.id
        THEN AppendClient(inbounds[i], JsonLoads(payload.settings).clients[1])
        ELSE inbounds[i]]

AddClientResponse(outcome) ==
    IF outcome = "ok" THEN [status |-> 200, body |-> [success |-> TRUE, msg |-> "added"]]
    ELSE IF outcome = "duplicate"
         THEN [status |-> 200, body |-> [success |-> FALSE, msg |-> "Duplicate email"]]
    ELSE IF outcome = "api_false"
         THEN [status |-> 200, body |-> [success |-> FALSE, msg |-> "failed"]]
    ELSE IF outcome = "http_error" THEN [status |-> 500, body |-> [success |-> FALSE]]
    ELSE [status |-> 0, body |-> [success |-> FALSE]]

GetOutcomes == {"ok", "api_false", "http_error"}

GetResponse(outcome, doc) ==
    IF outcome = "ok" THEN [status |-> 200, body |-> [success |-> TRUE, obj |-> doc]]
    ELSE IF outcome = "api_false"
         THEN [status |-> 200, body |-> [success |-> FALSE, msg |-> "failed"]]
         ELSE [status |-> 500, body |-> [success |-> FALSE]]

----------------------------------------------------------------------------
(* Allocation runs: pick_new_ip applied again and again, each returned     *)
(* address added to the peers as add_wireguard_peer adds it.               *)

MaxOffset == 7
MaxPicks == 8
MaxInbounds == 3
MaxStats == 2

Pending == [kind |-> "pending"]

BaseAddr == IPv4Address(DefaultPool.ip)

\* an address next to the pools and outside all of them
OutsideAddr == BaseAddr + 261

CandAddrs == {BaseAddr + i : i \in 0..MaxOffset} \cup {OutsideAddr}

Pools == {[ip |-> <<10, 0, 0, 0>>, len |-> n] : n \in {24, 29, 30, 31, 32}}
            \cup {[ip |-> <<10, 0, 0, 4>>, len |-> 30],
                  [ip |-> <<10, 0, 0, 1>>, len |-> 30]}

SetMin(S) == CHOOSE x \in S : \A y \in S : x <= y

OldPeer(addrs) ==
    [privateKey |-> [privateKey |-> 0], publicKey |-> [publicKey |-> 0],
     allowedIPs |-> [k \in DOMAIN addrs |-> [ip |-> Compressed(addrs[k]), len |-> 32]],
     keepAlive |-> DefaultKeepalive, name |-> "old"]

\* one peer per address, ascending
RECURSIVE PeersOf(_)
PeersOf(S) ==
    IF S = {} THEN <<>>
    ELSE <<OldPeer(<<SetMin(S)>>)>> \o PeersOf(S \ {SetMin(S)})

\* the same addresses with the two smallest held by one peer
PackedPeersOf(S) ==
    IF Cardinality(S) < 2 THEN PeersOf(S)
    ELSE LET a == SetMin(S)
             b == SetMin(S \ {a})
         IN  PeersOf(S \ {a, b}) \o <<OldPeer(<<b, a>>)>>

\* a wireguard settings document; without peers it has no "peers" key
WgSettings(peers) ==
    IF peers = <<>> THEN JsonDumps([mtu |-> 1420])
    ELSE JsonDumps([mtu |-> 1420, peers |-> peers])

\* peers holding all hosts of the default pool but the last `free` ones,
\* and one address outside the pool
NearlyFullPeers(free) ==
    LET h == Hosts(DefaultPool)
    IN  <<OldPeer(<<OutsideAddr>>)>> \o [i \in 1..(Len(h) - free) |-> OldPeer(<<h[i]>>)]

InitPanelIdle ==
    /\ panel = <<>>
    /\ pc = <<>>
    /\ loc = <<>>
    /\ ret = <<>>
    /\ nextKey = 1
    /\ calls = 0
    /\ dedup = TRUE
    /\ session = "valid"

InitPickIdle ==
    /\ poolCidr = DefaultPool
    /\ settingsJson = WgSettings(<<>>)
    /\ origJson = WgSettings(<<>>)
    /\ pickRes = Pending
    /\ pickHist = <<>>

InitLeastIdle ==
    /\ inbList = <<>>
    /\ leastArg = "vless"
    /\ leastResp = Pending
    /\ leastRes = Pending

InitFmtIdle ==
    /\ fmtInbound = None
    /\ fmtRes = Pending

InitPick ==
    /\ InitPanelIdle
    /\ InitLeastIdle
    /\ InitFmtIdle
    /\ poolCidr \in Pools
    /\ \/ \E S \in SUBSET CandAddrs :
             settingsJson \in {WgSettings(PeersOf(S)), WgSettings(PackedPeersOf(S))}
       \/ \E f \in 0..2 : settingsJson = WgSettings(NearlyFullPeers(f))
    /\ origJson = settingsJson
    /\ pickRes = Pending
    /\ pickHist = <<>>

\* new_ip = pick_new_ip(...); on success the address joins the peers
PickCall ==
    /\ pickRes.kind # "exception"
    /\ Len(pickHist) < MaxPicks
    /\ pickRes' = PickNewIp(settingsJson, poolCidr)
    /\ IF pickRes'.kind = "ok"
       THEN /\ settingsJson' = JsonDumps(AppendPeer(JsonLoads(settingsJson),
                   NewPeer(GenerateWgKeys(Len(pickHist) + 1), pickRes'.value,
                           DefaultKeepalive, "new")))
            /\ pickHist' = Append(pickHist, pickRes'.value)
       ELSE UNCHANGED <<settingsJson, pickHist>>
    /\ UNCHANGED <<poolCidr, origJson, panelVars, leastVars, fmtVars>>

NextPick == PickCall

SpecPick == InitPick /\ [][NextPick]_vars

----------------------------------------------------------------------------
(* get_least_clients_inbound applied to inbound lists *)

Protocols == {"vless", "vmess", "wireguard"}

Stat(n) == [email |-> "u", id |-> n]

StatsOfLen(n) == [k \in 1..n |-> Stat(k)]

ListedInbound(id, protocol, load) ==
    [id |-> id, protocol |-> protocol, port |-> 443, clientStats |-> StatsOfLen(load)]

\* every list of up to MaxInbounds inbounds, ids by position
InboundLists ==
    UNION {{[i \in 1..n |-> ListedInbound(i, f[i][1], f[i][2])] :
               f \in [1..n -> Protocols \X (0..MaxStats)]} : n \in 0..MaxInbounds}

InitLeast ==
    /\ InitPanelIdle
    /\ InitPickIdle
    /\ InitFmtIdle
    /\ inbList \in InboundLists
    /\ leastArg \in Protocols
    /\ leastResp = Pending
    /\ leastRes = Pending

LeastCall ==
    /\ leastRes = Pending
    /\ \E outcome \in ListOutcomes :
          /\ leastResp' = ListResponse(outcome, inbList)
          /\ leastRes' = GetLeastClientsInbound(leastResp', leastArg)
    /\ UNCHANGED <<inbList, leastArg, panelVars, pickVars, fmtVars>>

NextLeast == LeastCall

SpecLeast == InitLeast /\ [][NextLeast]_vars

----------------------------------------------------------------------------
(* format_vless_url applied to inbounds with and without reality fields *)

\* a dict with the key bound to one of the values, or without the key
Optional(key, values) == {<<>>} \cup {[k \in {key} |-> v] : v \in values}

\* {**f, **g} for dicts without common keys
Merge(f, g) == [k \in DOMAIN f \cup DOMAIN g |-> IF k \in DOMAIN f THEN f[k] ELSE g[k]]

SpiderPaths == {<<>>, <<"/", "x", " ", "y">>}

RealitySettings ==
    {Merge(Merge(a, b), Merge(c, Merge(d, e))) :
        a \in Optional("publicKey", {"PBK"}),
        b \in Optional("fingerprint", {"chrome"}),
        c \in Optional("serverNames",
                       {<<>>, <<"example.com">>, <<"example.com", "b.example">>}),
        d \in Optional("shortIds", {<<>>, <<"ab">>, <<"ab", "cd">>}),
        e \in Optional("settings",
                       {<<>>} \cup {[spiderX |-> t] : t \in SpiderPaths})}

StreamSettingsDocs ==
    {Merge(n, Merge(x, r)) :
        n \in Optional("network", {"tcp"}),
        x \in Optional("security", {"reality"}),
        r \in Optional("realitySettings", RealitySettings)}

FmtClient == [id |-> "uuid-1", email |-> "alice"]

InitFormat ==
    /\ InitPanelIdle
    /\ InitPickIdle
    /\ InitLeastIdle
    /\ \E stream \in StreamSettingsDocs :
          fmtInbound = [id |-> 1, protocol |-> "vless", port |-> 443,
                        streamSettings |-> JsonDumps(stream)]
    /\ fmtRes = Pending

\* format_vless_url(client_info, inbound, HOST, inbound['port'])
FormatCall ==
    /\ fmtRes = Pending
    /\ fmtRes' = FormatVlessUrl(FmtClient, fmtInbound, "HOST", fmtInbound.port)
    /\ UNCHANGED <<fmtInbound, panelVars, pickVars, leastVars>>

NextFormat == FormatCall

SpecFormat == InitFormat /\ [][NextFormat]_vars

----------------------------------------------------------------------------
(* Peer provisioning: callers run add_wireguard_peer against one panel,    *)
(* their remote calls interleaved.                                         *)

MaxCalls == 3

\* two callers, so that calls can overlap
Procs == {1, 2}

Names == {"alice", "bob"}

Idle == [op |-> "none"]

StreamSettings == JsonDumps([network |-> "tcp", security |-> "none"])

Client(id, email) ==
    [id |-> id, flow |-> "", email |-> email, limitIp |-> 0, totalGB |-> 0,
     expiryTime |-> 0, enable |-> TRUE, tgId |-> "", subId |-> id, reset |-> 0]

StreamInbound(id, protocol, clients) ==
    [id |-> id, protocol |-> protocol, port |-> 443, remark |-> "stream",
     settings |-> JsonDumps([clients |-> clients]),
     streamSettings |-> StreamSettings,
     clientStats |-> [k \in DOMAIN clients |-> [email |-> clients[k].email]]]

WgInbound(id, peers) ==
    [id |-> id, protocol |-> "wireguard", port |-> 51820, remark |-> "wg",
     settings |-> WgSettings(peers), streamSettings |-> JsonDumps(<<>>),
     clientStats |-> <<>>]

\* the peer lists inbound 2 may start with: none, two peers with a free
\* address between them, and the default pool with one address left
InitialPeerLists ==
    {<<>>, PeersOf({BaseAddr + 1, BaseAddr + 3}), NearlyFullPeers(1)}

\* the user each caller serves: the bot passes the user's name
UserOf(p) == IF p % 2 = 1 THEN "alice" ELSE "bob"

\* inbound ids a caller may pass: the two wireguard inbounds and an absent one
PeerTargets == {2, 3, 9}

Init ==
    /\ InitPickIdle
    /\ InitLeastIdle
    /\ InitFmtIdle
    /\ session = "valid"
    /\ \E peers \in InitialPeerLists :
          panel = <<StreamInbound(1, "vless", <<>>), WgInbound(2, peers), WgInbound(3, <<>>)>>
    /\ pc = [p \in Procs |-> "idle"]
    /\ loc = [p \in Procs |-> Idle]
    /\ ret = [p \in Procs |-> Idle]
    /\ nextKey = 1
    /\ calls = 0
    /\ dedup = TRUE

InProgressKeys(inbound_id) ==
    {loc[q].key : q \in {q \in Procs : pc[q] = "awp_update" /\ loc[q].inbound_id = inbound_id}}

\* add_wireguard_peer up to its update request: the list request is
\* answered and the rest is computed locally
AwpStart(p) ==
    /\ pc[p] = "idle"
    /\ calls < MaxCalls
    /\ \E inbound_id \in PeerTargets, outcome \in Answers(ListOutcomes) :
          LET r == AwpPrepare(ListResponse(outcome, panel), inbound_id, UserOf(p),
                              DefaultKeepalive, nextKey)
          IN  IF r.kind = "ok"
              THEN /\ pc' = [pc EXCEPT ![p] = "awp_update"]
                   /\ loc' = [loc EXCEPT ![p] =
                                [op |-> "awp", inbound_id |-> inbound_id, key |-> nextKey,
                                 orig |-> r.orig,
                                 new_peer |-> r.new_peer, payload |-> r.payload,
                                 during |-> InProgressKeys(inbound_id),
                                 reqs |-> <<Request("list")>>]]
                   /\ ret' = [ret EXCEPT ![p] = Idle]
                   /\ nextKey' = nextKey + 1
              ELSE /\ ret' = [ret EXCEPT ![p] =
                                [op |-> "awp", key |-> 0, inbound_id |-> inbound_id,
                                 out |-> r, stage |-> "list", during |-> {},
                                 answer |-> outcome, reqs |-> <<Request("list")>>]]
                   /\ UNCHANGED <<pc, loc, nextKey>>
    /\ calls' = calls + 1
    /\ UNCHANGED <<panel, dedup, session, pickVars, leastVars, fmtVars>>

\* the update request reaches the panel (or not) and the call ends
AwpUpdate(p) ==
    /\ pc[p] = "awp_update"
    /\ \E outcome \in Answers(UpdateOutcomes) :
          LET after == PanelAfterUpdate(panel, loc[p].inbound_id, loc[p].payload, outcome)
              out == AwpFinish(UpdateResponse(outcome, FindById(after, loc[p].inbound_id)),
                               loc[p].new_peer)
              reqs == Append(loc[p].reqs, Request("update"))
          IN  /\ panel' = after
              /\ pc' = [pc EXCEPT ![p] = AwpAfterUpdate(out)]
              /\ IF AwpAfterUpdate(out) = "idle"
                 THEN /\ ret' = [ret EXCEPT ![p] =
                            [op |-> "awp", key |-> loc[p].key,
                             inbound_id |-> loc[p].inbound_id, out |-> out,
                             stage |-> "update", during |-> loc[p].during,
                             answer |-> outcome, reqs |-> reqs]]
                      /\ loc' = [loc EXCEPT ![p] = Idle]
                 ELSE /\ loc' = [loc EXCEPT ![p].reqs = reqs]
                      /\ UNCHANGED ret
    /\ UNCHANGED <<nextKey, calls, dedup, session, pickVars, leastVars, fmtVars>>

Next == \E p \in Procs : AwpStart(p) \/ AwpUpdate(p)

Spec == Init /\ [][Next]_vars

----------------------------------------------------------------------------
(* Client provisioning: callers run add_client, directly or through the    *)
(* bot's protocol_vless handler, their remote calls interleaved.           *)

MaxClientCalls == 2

\* inbound ids a direct caller may pass: a vless inbound, the vmess inbound
\* and an absent one (the bot's handler reaches both vless inbounds)
ClientTargets == {1, 3, 9}

NamedPeer(addr, name) == [OldPeer(<<addr>>) EXCEPT !.name = name]

\* the clients inbound 1 may start with
InitialClientLists == {<<>>, <<Client(100, "alice")>>}

InitClient ==
    /\ InitPickIdle
    /\ InitLeastIdle
    /\ InitFmtIdle
    /\ session = "valid"
    /\ dedup \in BOOLEAN
    /\ \E clients \in InitialClientLists :
          panel = <<StreamInbound(1, "vless", clients), StreamInbound(2, "vless", <<>>),
                    StreamInbound(3, "vmess", <<>>),
                    WgInbound(4, <<NamedPeer(BaseAddr + 1, "alice")>>)>>
    /\ pc = [p \in Procs |-> "idle"]
    /\ loc = [p \in Procs |-> Idle]
    /\ ret = [p \in Procs |-> Idle]
    /\ nextKey = 1
    /\ calls = 0

\* add_client returns or raises `out`; a bot handler goes on with it
AcOutcome(ctx, out) ==
    [op |-> ctx.op, via |-> ctx.via, inbound_id |-> ctx.inbound_id, email |-> ctx.email,
     uuid |-> ctx.uuid, create |-> ctx.create, answered |-> ctx.answered, out |-> out,
     protocol |-> ctx.protocol, held |-> ctx.held, reqs |-> ctx.reqs,
     answer |-> ctx.answer,
     handler |-> IF ctx.via # "bot" THEN [answer |-> "none"]
                 ELSE IF out.kind = "exception"
                      THEN [answer |-> "error", cause |-> out.msg]
                      ELSE VlessHandlerAfter(out.value, ctx.inbound)]

AcFinish(p, ctx, out) ==
    /\ ret' = [ret EXCEPT ![p] = AcOutcome(ctx, out)]
    /\ pc' = [pc EXCEPT ![p] = "idle"]
    /\ loc' = [loc EXCEPT ![p] = Idle]

\* add_client's try block: the addClient request is sent and answered;
\* `sent` holds the requests the caller's handler made before
AcPost(p, inbound_id, email, via, inbound, sent) ==
    LET client == NewClient(nextKey, email)
        payload == AddClientPayload(inbound_id, client)
    IN  \E outcome \in Answers(AddClientOutcomes(panel, dedup, inbound_id, email)) :
            LET resp == AddClientResponse(outcome)
                after == PanelAfterAddClient(panel, payload, outcome)
                ctx == [op |-> "ac", via |-> via, inbound_id |-> inbound_id,
                        email |-> email, uuid |-> nextKey, create |-> outcome,
                        inbound |-> inbound, todo |-> <<>>, answered |-> TRUE,
                        protocol |-> FallbackProtocol,
                        held |-> email \in HeldEmails(after),
                        reqs |-> Append(sent, Request("addClient")),
                        answer |-> outcome]
            IN  /\ panel' = after
                /\ nextKey' = nextKey + 1
                /\ IF CreateSucceeded(resp)
                   THEN AcFinish(p, ctx, Return(PyTuple(client, resp.body)))
                   ELSE /\ pc' = [pc EXCEPT ![p] = "fb_list"]
                        /\ loc' = [loc EXCEPT ![p] = ctx]
                        /\ ret' = [ret EXCEPT ![p] = Idle]

\* add_client(inbound_id, email) called directly
DirectAddClient(p) ==
    /\ pc[p] = "idle"
    /\ calls < MaxClientCalls
    /\ \E inbound_id \in ClientTargets, email \in Names :
          AcPost(p, inbound_id, email, "direct", None, <<>>)
    /\ calls' = calls + 1
    /\ UNCHANGED <<dedup, session, pickVars, leastVars, fmtVars>>

\* protocol_vless up to its add_client call: get_least_clients_inbound
VlessSelect(p) ==
    /\ pc[p] = "idle"
    /\ calls < MaxClientCalls
    /\ \E outcome \in Answers(ListOutcomes) :
          LET r == GetLeastClientsInbound(ListResponse(outcome, panel), "vless")
          IN  IF r.kind = "ok"
              THEN /\ pc' = [pc EXCEPT ![p] = "vless_selected"]
                   /\ loc' = [loc EXCEPT ![p] = [op |-> "vless", inbound |-> r.value,
                                                 reqs |-> <<Request("list")>>]]
                   /\ ret' = [ret EXCEPT ![p] = Idle]
              ELSE /\ ret' = [ret EXCEPT ![p] =
                                [op |-> "vless", via |-> "bot", out |-> r,
                                 reqs |-> <<Request("list")>>,
                                 handler |-> [answer |-> "error", cause |-> r.msg]]]
                   /\ UNCHANGED <<pc, loc>>
    /\ calls' = calls + 1
    /\ UNCHANGED <<panel, nextKey, dedup, session, pickVars, leastVars, fmtVars>>

\* protocol_vless calls add_client(inbound['id'], name)
VlessAddClient(p) ==
    /\ pc[p] = "vless_selected"
    /\ AcPost(p, loc[p].inbound.id, UserOf(p), "bot", loc[p].inbound, loc[p].reqs)
    /\ UNCHANGED <<calls, dedup, session, pickVars, leastVars, fmtVars>>

\* get_client_config_by_email lists the inbounds and keeps those of its
\* protocol argument
LookupList(p, call) ==
    \E outcome \in Answers(ListOutcomes) :
        LET inbounds == ListInbounds(ListResponse(outcome, panel))
            todo == LookupCandidates(inbounds.value, call.protocol)
            ctx == [call EXCEPT !.answered = @ /\ outcome = "ok",
                                !.reqs = Append(@, Request("list")),
                                !.answer = outcome]
        IN  IF inbounds.kind = "exception" THEN AcFinish(p, ctx, inbounds)
            ELSE IF todo = <<>> THEN AcFinish(p, ctx, Return(None))
            ELSE /\ pc' = [pc EXCEPT ![p] = "fb_get"]
                 /\ loc' = [loc EXCEPT ![p] = [ctx EXCEPT !.todo = todo]]
                 /\ ret' = [ret EXCEPT ![p] = Idle]

\* the except block of add_client calls get_client_config_by_email
FbList(p) ==
    /\ pc[p] = "fb_list"
    /\ LookupList(p, loc[p])
    /\ UNCHANGED <<panel, nextKey, calls, dedup, session, pickVars, leastVars, fmtVars>>

\* the lookup fetches the next candidate and searches it; after the last
\* candidate the loop ends and the function returns None
FbGet(p) ==
    /\ pc[p] = "fb_get"
    /\ \E outcome \in Answers(GetOutcomes) :
          LET full == GetInbound(GetResponse(outcome, FindById(panel, Head(loc[p].todo))))
              entry == FindClientInInbound(full.value, loc[p].email)
              ctx == [loc[p] EXCEPT !.answered = @ /\ outcome = "ok",
                                    !.reqs = Append(@, Request("get")),
                                    !.answer = outcome]
          IN  IF full.kind = "exception" THEN AcFinish(p, ctx, full)
              ELSE IF entry.kind = "ok" THEN AcFinish(p, ctx, Return(PyDict(entry.value)))
              ELSE IF Tail(loc[p].todo) = <<>> THEN AcFinish(p, ctx, Return(None))
              ELSE /\ loc' = [loc EXCEPT ![p] = [ctx EXCEPT !.todo = Tail(@)]]
                   /\ UNCHANGED <<pc, ret>>
    /\ UNCHANGED <<panel, nextKey, calls, dedup, session, pickVars, leastVars, fmtVars>>

NextClient ==
    \E p \in Procs :
        \/ DirectAddClient(p)
        \/ VlessSelect(p)
        \/ VlessAddClient(p)
        \/ FbList(p)
        \/ FbGet(p)

SpecClient == InitClient /\ [][NextClient]_vars

----------------------------------------------------------------------------
(* All operations against one panel whose session may expire and whose     *)
(* answers may never come.                                                 *)

MaxOps == 2

\* what may become of a login request
LoginOutcomes == {"ok", "rejected", "http_error"}

LoginResponse(outcome) ==
    IF outcome = "ok" THEN [status |-> 200, body |-> [success |-> TRUE, msg |-> "ok"]]
    ELSE IF outcome = "rejected"
         THEN [status |-> 200, body |-> [success |-> FALSE, msg |-> "wrong password"]]
         ELSE [status |-> 500, body |-> [success |-> FALSE]]

\* login: raise_for_status, then the success flag, then the answer
LoginResult(resp) ==
    IF resp.status >= 400 THEN Raise("HTTPError")
    ELSE IF ~Get(resp.body, "success", FALSE) THEN Raise("Login failed")
    ELSE Return(resp.body)

InitOps ==
    /\ InitPickIdle
    /\ InitLeastIdle
    /\ InitFmtIdle
    /\ dedup = TRUE
    /\ session \in {"valid", "expired"}
    /\ panel = <<StreamInbound(1, "vless", <<Client(100, "alice")>>),
                 WgInbound(2, <<NamedPeer(BaseAddr + 1, "alice")>>),
                 StreamInbound(3, "vmess", <<>>)>>
    /\ pc = [p \in Procs |-> "idle"]
    /\ loc = [p \in Procs |-> Idle]
    /\ ret = [p \in Procs |-> Idle]
    /\ nextKey = 1
    /\ calls = 0

\* service.login(): the only operation that sends a login request
Login(p) ==
    /\ pc[p] = "idle"
    /\ calls < MaxOps
    /\ \E outcome \in LoginOutcomes :
          /\ session' = IF outcome = "ok" THEN "valid" ELSE session
          /\ ret' = [ret EXCEPT ![p] =
                [op |-> "login", out |-> LoginResult(LoginResponse(outcome)),
                 reqs |-> <<Request("login")>>]]
    /\ calls' = calls + 1
    /\ UNCHANGED <<panel, pc, loc, nextKey, dedup, pickVars, leastVars, fmtVars>>

\* the panel stops accepting the session
Expire ==
    /\ session = "valid"
    /\ session' = "expired"
    /\ UNCHANGED <<panel, pc, loc, ret, nextKey, calls, dedup, pickVars, leastVars, fmtVars>>

\* get_client_config_by_email(email, protocol) called directly
LookupCall(p) ==
    /\ pc[p] = "idle"
    /\ calls < MaxOps
    /\ \E email \in Names, protocol \in Protocols :
          LookupList(p, [op |-> "lookup", via |-> "direct", inbound_id |-> 0,
                         email |-> email, uuid |-> 0, create |-> "none",
                         inbound |-> None, todo |-> <<>>, answered |-> TRUE,
                         protocol |-> protocol,
                         held |-> email \in HeldEmails(panel), reqs |-> <<>>,
                         answer |-> "none"])
    /\ calls' = calls + 1
    /\ UNCHANGED <<panel, nextKey, dedup, session, pickVars, leastVars, fmtVars>>

\* the positions at which a caller waits for the answer to a request
Waiting == {"awp_update", "vless_selected", "fb_list", "fb_get"}

\* session.get and session.post are called without a timeout: when the
\* panel never answers, the caller waits for ever
NoAnswer(p) ==
    /\ pc[p] \in Waiting
    /\ pc' = [pc EXCEPT ![p] = "blocked"]
    /\ UNCHANGED <<panel, loc, ret, nextKey, calls, dedup, session,
                   pickVars, leastVars, fmtVars>>

\* a caller begins an operation
Begin(p) ==
    \/ AwpStart(p)
    \/ DirectAddClient(p)
    \/ VlessSelect(p)
    \/ LookupCall(p)
    \/ Login(p)

\* a caller goes on with the operation it is in: the answer to its
\* request has come
Continue(p) ==
    \/ AwpUpdate(p)
    \/ VlessAddClient(p)
    \/ FbList(p)
    \/ FbGet(p)

\* one caller at a time: the bot as it serves one user after another
OpsProcs == {1}

NextOps ==
    \/ \E p \in OpsProcs : Begin(p)
    \/ \E p \in OpsProcs : Continue(p)
    \/ \E p \in OpsProcs : NoAnswer(p)
    \/ Expire

SpecOps == InitOps /\ [][NextOps]_vars

\* a caller inside an operation goes on whenever it can
SpecOpsFair == SpecOps /\ \A p \in OpsProcs : WF_vars(Continue(p))

----------------------------------------------------------------------------
(* Properties of add_wireguard_peer, under Spec *)

Finished == {ret[p] : p \in Procs} \ {Idle}

Succeeded == {r \in Finished : r.out.kind = "ok"}

Failed == {r \in Finished : r.out.kind = "exception"}

\* two calls overlapped when one began while the other awaited its update
Overlapped(a, b) == a.key \in b.during \/ b.key \in a.during

PeerAddrs(peer) == {AddrOf(ip) : ip \in Range(peer.allowedIPs)}

PeersIn(doc) == IF doc = None THEN <<>> ELSE Get(JsonLoads(doc.settings), "peers", <<>>)

\* the private keys of the peers the panel holds for an inbound
PersistedKeys(inbound_id) ==
    {peer.privateKey.privateKey : peer \in Range(PeersIn(FindById(panel, inbound_id)))}

\* C1: two overlapping add_wireguard_peer calls on one inbound that both
\* return successfully return peers with different allowedIPs addresses.
C1_ConcurrentPeersDistinct ==
    \A a, b \in Succeeded :
        (a.key # b.key /\ a.inbound_id = b.inbound_id /\ Overlapped(a, b)) =>
            PeerAddrs(a.out.value.peer) \cap PeerAddrs(b.out.value.peer) = {}

RECURSIVE SumAddrs(_, _, _)
SumAddrs(peers, lo, hi) ==
    IF lo > hi THEN 0
    ELSE IF lo = hi THEN Cardinality(PeerAddrs(peers[lo]))
    ELSE LET mid == (lo + hi) \div 2
         IN  SumAddrs(peers, lo, mid) + SumAddrs(peers, mid + 1, hi)

AllAddrs(peers) == UNION {PeerAddrs(peers[k]) : k \in DOMAIN peers}

\* C2: in every reachable panel state no inbound holds two peers that
\* share an allowedIPs address (the peers' address sets are disjoint:
\* together they hold as many addresses as they hold one by one).
C2_UniqueAllowedIPs ==
    \A i \in DOMAIN panel :
        LET peers == PeersIn(panel[i])
        IN  Cardinality(AllAddrs(peers)) = SumAddrs(peers, 1, Len(peers))

\* two overlapping calls were both applied, one after the other
C2_Witness ==
    \E a, b \in Succeeded :
        /\ a.key # b.key /\ a.inbound_id = 2 /\ b.inbound_id = 2
        /\ Overlapped(a, b)
        /\ Len(PeersIn(panel[2])) >= 3

\* C3 as stated: a call that ended in any error left no peer of its own in
\* the panel.
C3_ErrorMeansNothingPersisted ==
    \A r \in Failed : r.key > 0 => r.key \notin PersistedKeys(r.inbound_id)

\* C3 amended: a call that ended in inbound not found, pool exhausted, a
\* failed list request, an HTTP error status or success=false answered to
\* the update left no peer of its own in the panel; an update request that
\* got no response at all (connection lost, timeout) may have been applied.
C3_AnsweredErrorMeansNothingPersisted ==
    \A r \in Failed :
        (r.key > 0 /\ ~(r.stage = "update" /\ r.out = Raise("ConnectionError")))
            => r.key \notin PersistedKeys(r.inbound_id)

\* an update the panel rejected, after the caller's peer was built
C3_Witness ==
    \E r \in Failed :
        /\ r.stage = "update" /\ r.key > 0
        /\ r.out = Raise("Update Inbound failed")
        /\ \E q \in Failed : q.out = Raise("IP pool exhausted")

\* C17: a successful add_wireguard_peer call on inbound X leaves every
\* other inbound as it was; X's peers become the peers the call fetched
\* with its new peer appended, X's other settings and fields are those the
\* call fetched, the update carries neither id nor clientStats and X keeps
\* both.
C17_UpdateFrame ==
    [][\A p \in Procs :
          (pc[p] = "awp_update" /\ pc'[p] = "idle" /\ ret'[p].out.kind = "ok") =>
              LET orig == loc[p].orig
                  fetched == JsonLoads(orig.settings)
              IN  /\ DOMAIN loc[p].payload = DOMAIN orig \ {"id", "clientStats"}
                  /\ DOMAIN panel' = DOMAIN panel
                  /\ \A i \in DOMAIN panel :
                        IF panel[i].id # loc[p].inbound_id THEN panel'[i] = panel[i]
                        ELSE LET stored == JsonLoads(panel'[i].settings)
                             IN  /\ stored.peers = Append(Get(fetched, "peers", <<>>),
                                                          ret'[p].out.value.peer)
                                 /\ DOMAIN stored = DOMAIN fetched \cup {"peers"}
                                 /\ \A k \in DOMAIN fetched \ {"peers"} :
                                       stored[k] = fetched[k]
                                 /\ DOMAIN panel'[i] = DOMAIN panel[i]
                                 /\ \A k \in DOMAIN orig \ {"id", "clientStats", "settings"} :
                                       panel'[i][k] = orig[k]
                                 /\ panel'[i].id = panel[i].id
                                 /\ panel'[i].clientStats = panel[i].clientStats]_vars

\* a call that found two peers returned with its own as the third and last
C17_Witness ==
    \E r \in Succeeded :
        /\ r.inbound_id = 2 /\ r.during = {}
        /\ Len(PeersIn(panel[2])) = 3
        /\ PeersIn(panel[2])[3] = r.out.value.peer
        /\ PeersIn(panel[2])[1].name = "old"
        /\ PeersIn(panel[3]) = <<>>

\* C19: the peer a successful add_wireguard_peer call returned is in the
\* panel's peer list of its inbound in every later state, whatever calls
\* follow or overlap.
C19_ReturnedPeerStays ==
    \A r \in Succeeded : r.key \in PersistedKeys(r.inbound_id)

----------------------------------------------------------------------------
(* Properties of add_client, under SpecClient *)

FinishedAddClient == {r \in Finished : r.op = "ac"}

\* the calls that returned a client, as a tuple or as a bare record
ReturnedClient == {r \in FinishedAddClient : r.out.kind = "ok" /\ r.out.value # None}

ReturnedId(r) ==
    IF r.out.value.type = "tuple" THEN r.out.value.items[1].id ELSE r.out.value.items.id

\* C4: when a call created the client and a second call with the same
\* email on the same inbound was rejected as a duplicate (its lookup
\* requests all answered), both return a client with the same id.
C4_SameIdOnDuplicate ==
    \A a, b \in FinishedAddClient :
        (/\ a.email = b.email /\ a.inbound_id = b.inbound_id
         /\ a.create = "ok" /\ b.create = "duplicate" /\ b.answered)
            => /\ a \in ReturnedClient /\ b \in ReturnedClient
               /\ ReturnedId(a) = ReturnedId(b)

\* the positions of the clients with a given email in a protocol's inbounds
ClientsWithEmail(protocol, email) ==
    UNION {{<<i, k>> : k \in {k \in DOMAIN ClientsOf(panel[i]) :
                                  ClientsOf(panel[i])[k].email = email}} :
              i \in {i \in DOMAIN panel : panel[i].protocol = protocol}}

\* C5: whatever the panel does with duplicates, it never holds two clients
\* with one email within the inbounds of one protocol.
C5_OneClientPerEmail ==
    \A protocol \in {"vless", "vmess"}, email \in Names :
        Cardinality(ClientsWithEmail(protocol, email)) <= 1

\* C6: add_client never returns normally without a client: when the create
\* attempt failed and the lookup, its requests all answered, found nothing,
\* it raises not-found.
C6_NotFoundOrClient ==
    \A r \in FinishedAddClient :
        (r.answered /\ r.out.kind = "ok") => r.out.value # None

\* C7: whenever add_client returns a client, on the created path or on the
\* fallback path, the value has the form of the created path (a pair of
\* client and answer) and the bot's handler unpacks it and sends the URI.
C7_SameFormOnBothPaths ==
    \A r \in ReturnedClient :
        /\ r.out.value.type = "tuple"
        /\ r.via = "bot" => r.handler.answer = "sent"

ReturnedEmail(r) ==
    IF r.out.value.type = "tuple" THEN r.out.value.items[1].email
    ELSE Get(r.out.value.items, "email", "<None>")

\* C18: when the create attempt failed, the lookup's requests were all
\* answered and some inbound of the panel, of whatever protocol, held a
\* client with the email, add_client returns a client with that email.
C18_ExistingClientReturned ==
    \A r \in FinishedAddClient :
        (r.create # "ok" /\ r.answered /\ r.held) =>
            /\ r \in ReturnedClient
            /\ ReturnedEmail(r) = r.email

----------------------------------------------------------------------------
(* Properties of single calls, under SpecOps *)

\* the calls in progress and the calls finished, each with its requests
CallsSeen ==
    {c \in {ret[p] : p \in Procs} \cup {loc[p] : p \in Procs} : "reqs" \in DOMAIN c}

FinishedCalls == {c \in {ret[p] : p \in Procs} : "reqs" \in DOMAIN c}

\* the endpoints a call has sent requests to, in order
Endpoints(c) == [k \in DOMAIN c.reqs |-> c.reqs[k].req]

Count(seq, x) == Cardinality({k \in DOMAIN seq : seq[k] = x})

\* the requests of a call that follow its addClient request
AfterAddClient(c) ==
    LET e == Endpoints(c)
        at == {k \in DOMAIN e : e[k] = "addClient"}
    IN  IF at = {} THEN <<>> ELSE SubSeq(e, SetMin(at) + 1, Len(e))

\* answers that are failures of the transport
TransportFailures == {"http_error", "refused", "lost"}

ExpiredThroughout(c) == \A k \in DOMAIN c.reqs : c.reqs[k].session = "expired"

\* C13: an operation other than login whose requests were all sent on an
\* expired session ends in an error; add_client does not return a client
\* or an empty result instead; no such operation sends a login request.
C13_ExpiredSessionFails ==
    \A r \in FinishedCalls :
        r.op # "login" =>
            /\ Count(Endpoints(r), "login") = 0
            /\ ExpiredThroughout(r) => r.out.kind = "exception"

\* C14: every operation that has begun eventually completes.
C14_EventuallyCompletes ==
    \A p \in OpsProcs : (pc[p] # "idle") ~> (pc[p] = "idle")

\* the entries of an inbound's clients (vless, vmess) or peers (otherwise)
\* whose email or name is the given one, by position
MatchingEntries(doc, email) ==
    LET settings == JsonLoads(doc.settings)
        entries == IF doc.protocol \in {"vless", "vmess"}
                   THEN Get(settings, "clients", <<>>)
                   ELSE Get(settings, "peers", <<>>)
    IN  [entries |-> entries,
         at |-> {k \in DOMAIN entries :
                    \/ ("email" \in DOMAIN entries[k] /\ entries[k].email = email)
                    \/ ("name" \in DOMAIN entries[k] /\ entries[k].name = email)}]

\* C15: a lookup whose requests were all answered returns the first
\* matching entry of the first inbound of the given protocol, in list
\* order, that holds one, and fails as not found when there is none.
C15_FirstMatchOrNotFound ==
    \A r \in FinishedCalls :
        (r.op = "lookup" /\ r.answered) =>
            LET holding == {i \in DOMAIN panel :
                               /\ panel[i].protocol = r.protocol
                               /\ MatchingEntries(panel[i], r.email).at # {}}
            IN  IF holding = {} THEN r.out.kind = "exception"
                ELSE LET m == MatchingEntries(panel[SetMin(holding)], r.email)
                     IN  r.out = Return(PyDict(m.entries[SetMin(m.at)]))

----------------------------------------------------------------------------
(* Properties of pick_new_ip, under SpecPick *)

NetworkAddr(cidr) == IPv4Address(cidr.ip)
BroadcastAddr(cidr) == IPv4Address(cidr.ip) + NumAddresses(cidr) - 1

\* the addresses strictly between the network and the broadcast address
StrictHosts(cidr) == (NetworkAddr(cidr) + 1)..(BroadcastAddr(cidr) - 1)

\* the host addresses, a /31 and a /32 keeping all their addresses
HostSet(cidr) ==
    IF cidr.len >= 31 THEN NetworkAddr(cidr)..BroadcastAddr(cidr)
    ELSE StrictHosts(cidr)

\* the used set the last pick_new_ip call was given
UsedBefore ==
    IF pickRes.kind = "ok"
    THEN UsedIps(origJson) \cup {AddrOf(pickHist[k]) : k \in 1..(Len(pickHist) - 1)}
    ELSE UsedIps(settingsJson)

SmallestFree(hosts, used) == SetMin(hosts \ (used \cap hosts))

\* C8 as stated: for every used set and every pool CIDR the result is the
\* smallest address strictly between network and broadcast address that is
\* not used, as a /32.
C8_SmallestStrictHost ==
    (pickRes.kind = "ok") =>
        /\ StrictHosts(poolCidr) \ UsedBefore # {}
        /\ pickRes.value = [ip |-> Compressed(SmallestFree(StrictHosts(poolCidr), UsedBefore)),
                            len |-> 32]

\* C8 amended: for every used set and every pool CIDR, pick_new_ip returns
\* the smallest host address not in the used set as a /32, where the hosts
\* of a pool of prefix length at most 30 lie strictly between its network
\* and broadcast address and a /31 or /32 pool's hosts are all its
\* addresses; used addresses outside the pool do not affect the result.
C8_SmallestHost ==
    (pickRes.kind = "ok") =>
        /\ HostSet(poolCidr) \ UsedBefore # {}
        /\ pickRes.value = [ip |-> Compressed(SmallestFree(HostSet(poolCidr), UsedBefore)),
                            len |-> 32]

\* a call that skipped used hosts, with used addresses outside the pool
C8_Witness ==
    /\ pickRes.kind = "ok"
    /\ poolCidr.len = 29
    /\ pickHist = <<pickRes.value>>
    /\ AddrOf(pickRes.value) = BaseAddr + 3
    /\ {BaseAddr, OutsideAddr, BaseAddr + 7} \subseteq UsedBefore

\* C9: the addresses returned by repeated calls are pairwise distinct and
\* none was in the original used set; a call reports the pool exhausted
\* exactly when every host address is used (254 hosts for a /24).
C9_DistinctUntilExhausted ==
    /\ \A i, j \in DOMAIN pickHist : i # j => AddrOf(pickHist[i]) # AddrOf(pickHist[j])
    /\ \A i \in DOMAIN pickHist : AddrOf(pickHist[i]) \notin UsedIps(origJson)
    /\ (pickRes # Pending /\ ValidNetwork(poolCidr)) =>
          /\ (pickRes = Raise("IP pool exhausted")) <=> (HostSet(poolCidr) \subseteq UsedBefore)
          /\ pickRes.kind \in {"ok", "exception"}
          /\ (pickRes.kind = "exception" /\ poolCidr.len = 24) =>
                Cardinality(UsedBefore \cap HostSet(poolCidr)) = 254

\* the default /24 filled by two successive calls, the third failing
C9_Witness ==
    /\ poolCidr = DefaultPool
    /\ pickRes = Raise("IP pool exhausted")
    /\ Len(pickHist) = 2
    /\ AddrOf(pickHist[2]) = BaseAddr + 254

----------------------------------------------------------------------------
(* Properties of get_least_clients_inbound, under SpecLeast *)

\* C10: only inbounds of exactly the given protocol are considered; with
\* none the call fails as not found; otherwise the result is the inbound of
\* smallest len(clientStats), the earliest in list order among equals.
C10_FirstLeastLoaded ==
    LET seen == IF leastResp.body.success THEN inbList ELSE <<>>
        matching == {i \in DOMAIN seen : seen[i].protocol = leastArg}
    IN  (leastRes # Pending) =>
            IF leastResp.status >= 400 THEN leastRes = Raise("HTTPError")
            ELSE IF matching = {} THEN leastRes = Raise("No inbounds with protocol")
            ELSE /\ leastRes.kind = "ok"
                 /\ \E i \in matching :
                       /\ leastRes.value = inbList[i]
                       /\ \A j \in matching :
                             /\ Len(inbList[i].clientStats) <= Len(inbList[j].clientStats)
                             /\ j < i => Len(inbList[j].clientStats) > Len(inbList[i].clientStats)

\* a tie among matching inbounds behind a lighter inbound of another protocol
C10_Witness ==
    /\ leastRes.kind = "ok"
    /\ Len(inbList) = 3
    /\ leastArg = "vless"
    /\ inbList[1].protocol = "wireguard" /\ inbList[1].clientStats = <<>>
    /\ inbList[2].protocol = "vless" /\ inbList[3].protocol = "vless"
    /\ Len(inbList[2].clientStats) = 1 /\ Len(inbList[3].clientStats) = 1
    /\ leastRes.value.id = 2

\* C11: list_inbounds fails with an API error whenever the panel answers
\* with a false success flag; it never turns that answer into an empty
\* list, so get_least_clients_inbound never reports "no inbounds with
\* protocol" for a panel-side failure.
C11_ApiFalseIsAnError ==
    (leastResp # Pending /\ leastResp.status < 400 /\ ~leastResp.body.success) =>
        /\ ListInbounds(leastResp).kind = "exception"
        /\ leastRes.kind = "exception"
        /\ leastRes # Raise("No inbounds with protocol")

----------------------------------------------------------------------------
(* Properties of format_vless_url, under SpecFormat *)

\* whether the inbound's realitySettings hold the key
HasReality(key) ==
    LET stream == JsonLoads(fmtInbound.streamSettings)
    IN  "realitySettings" \in DOMAIN stream /\ key \in DOMAIN stream.realitySettings

RealityOf(key) == JsonLoads(fmtInbound.streamSettings).realitySettings[key]

\* C16: format_vless_url returns a URI whatever reality fields are missing,
\* and the query value of a missing field (a serverNames or shortIds list
\* that is absent or empty, an absent publicKey, fingerprint or spiderX) is
\* the empty text.
C16_MissingFieldsRenderEmpty ==
    (fmtRes # Pending) =>
        /\ fmtRes.kind = "ok"
        /\ ~HasReality("publicKey") => fmtRes.value.query.pbk = ""
        /\ ~HasReality("fingerprint") => fmtRes.value.query.fp = ""
        /\ (~HasReality("serverNames") \/ RealityOf("serverNames") = <<>>)
              => fmtRes.value.query.sni = ""
        /\ (~HasReality("shortIds") \/ RealityOf("shortIds") = <<>>)
              => fmtRes.value.query.sid = ""
        /\ (~HasReality("settings") \/ "spiderX" \notin DOMAIN RealityOf("settings"))
              => fmtRes.value.query.spx = <<>>

====
